---- MODULE Spec2Model ----
(***************************************************************************)
(* Model of the two AWS ingesters of the repository:                       *)
(*   - the Kinesis ingester (src/unnamed/part_000): one goroutine per open *)
(*     shard, a stateman holding stream -> shard -> sequence number, and   *)
(*     main's shutdown sequence;                                           *)
(*   - the SQS ingester (src/ingesters/sqsIngester/main.go): one           *)
(*     queueRunner per queue, its receive helper goroutine, and main's     *)
(*     shutdown sequence.                                                  *)
(* The two are separate binaries; `mode` says which one is running.        *)
(*                                                                         *)
(* Sequence numbers are modelled as 1..MaxSeq, the empty string as 0.      *)
(* A shard iterator is modelled by the sequence number of the next record  *)
(* it will return.                                                         *)
(***************************************************************************)
EXTENDS Integers, Sequences, FiniteSets, TLC

\* ---------------------------------------------------------------- bounds
\* number of records a shard ever holds
MaxSeq == 2
\* largest number of records one GetRecords answer carries (SetLimit)
MaxBatch == 2
\* largest number of messages one ReceiveMessage answer carries
MaxMsgs == 2
\* largest sequence number found in the state file at startup
MaxFileSeq == 1
\* largest MillisBehindLatest an answer carries
MaxLag == 1
\* largest value of a shardMetrics counter
MaxCount == 2

ShardIds == <<"shard0", "shard1">>
ShardSet == {ShardIds[i] : i \in 1..Len(ShardIds)}
Queues == <<"q0", "q1">>
QueueSet == {Queues[i] : i \in 1..Len(Queues)}

Stream_Name == "stream0"

\* the nil pointer (res.NextShardIterator == nil, output.ShardIterator == nil)
Nil == -1

EmptyMap == [x \in {} |-> 0]

VARIABLES
    mode,          \* "stream": Kinesis ingester, "queue": SQS ingester
    mainpc,        \* position of main
    spawnIdx,      \* index of the next shard / queue main's loop handles
    wg,            \* sync.WaitGroup counter
    running,       \* main's running flag (Kinesis)
    dieChan,       \* TRUE once close(dieChan) ran (Kinesis)
    done,          \* TRUE once close(done) ran (SQS)
    cancpc,        \* the goroutine that sleeps a second and calls cancel()
    cancelled,     \* ctx is cancelled
    Iterator_Type, \* stream.Iterator_Type of the configuration
    ending,        \* shard -> EndingSequenceNumber != nil at discovery
    attrValues,    \* the SentTimestamp values the SQS service of this run uses
    Parse_Time,    \* stream.Parse_Time of the configuration
    Metrics_Interval, \* stream.Metrics_Interval of the configuration
    procFails,     \* the shard processors of this run may reject entries
    states,        \* stateman.states: stream -> shard -> sequence number
    file,          \* the last snapshot this run wrote to the state file
    ticks,         \* 15 s timer ticks of stateman.Start still to come in this run
    nFlush,        \* number of Flush calls so far
    setSince,      \* UpdateSequenceNum ran since the last Flush, if any
    tasks,         \* shard -> number of goroutines main started for it
    pc,            \* shard -> position of the shard goroutine
    gsii,          \* shard -> the GetShardIteratorInput last built
    iter,          \* shard -> iter
    lastSeqNum,    \* shard -> lastSeqNum
    records,       \* shard -> res.Records of the last pass of `for running`
    idx,           \* shard -> index in the record loop
    handed,        \* shard -> records of the last pass given to ProcessContext
    wrote,         \* shard -> UpdateSequenceNum ran in the last pass
    expired,       \* shard -> last acquisition follows an expired iterator
    metricsTrackers, \* the slice of the shards' trackers (by shard id)
    regOld,        \* shard -> the slice value its append read
    tracker,       \* shard -> the goroutine's shardMetrics
    reporter,      \* position of the metrics reporter goroutine
    parseTime,     \* shard -> stream.Parse_Time of the goroutine's own stream copy
    ents,          \* shard -> what happened to each record of handed
    qpc,           \* queue -> position of queueRunner
    helper,        \* queue -> position of the receive helper goroutine
    o,             \* queue -> the helper's o: the ReceiveMessageOutput
    out,           \* queue -> out: what queueRunner took from c
    qidx,          \* queue -> index in the message loop
    qhanded,       \* queue -> entries of this receive given to ProcessContext
    qfail,         \* queue -> a ProcessContext call of the queue has failed
    sample,        \* a shardMetrics called on its own
    rets,          \* what the ReadAndReset calls since the last Update returned
    before,        \* sample before the last call
    lastOp,        \* the last call on sample
    closes         \* shard or queue -> number of Close calls on its processor

vars == <<mode, mainpc, spawnIdx, wg, running, dieChan, done, cancpc, cancelled,
          Iterator_Type, ending, attrValues, Parse_Time, Metrics_Interval,
          procFails, metricsTrackers, regOld, tracker, reporter, parseTime, ents, states,
          file, ticks, nFlush, setSince, tasks, pc, gsii, iter, lastSeqNum, records,
          idx, handed, wrote, expired, qpc, helper, o, out, qidx, qhanded,
          qfail, closes, sample, rets, before, lastOp>>

mainVars == <<mainpc, spawnIdx, running, dieChan, done, cancpc, cancelled>>
cfgVars == <<mode, Iterator_Type, ending, attrValues, Parse_Time,
             Metrics_Interval, procFails>>
shardVars == <<pc, gsii, iter, lastSeqNum, records, idx, handed, wrote, expired,
               parseTime, ents, tasks, closes, metricsTrackers, regOld, tracker,
               reporter>>
queueVars == <<qpc, helper, o, out, qidx, qhanded, qfail>>
benchVars == <<sample, rets, before, lastOp>>
fileVars == <<file, ticks, nFlush, setSince>>

\* ------------------------------------------------------------- stateman
\* s.states[stream][shard], "" when either key is missing
Lookup(m, stream, shard) ==
    IF stream \in DOMAIN m /\ shard \in DOMAIN m[stream]
    THEN m[stream][shard] ELSE 0

\* the lazy initialisation both accessors perform
InitStream(m, stream) ==
    IF stream \in DOMAIN m THEN m
    ELSE [x \in DOMAIN m \cup {stream} |-> IF x = stream THEN EmptyMap ELSE m[x]]

\* the map after stateman.GetSequenceNum(stream, shard)
GetSequenceNum(m, stream, shard) == InitStream(m, stream)

\* the map after stateman.UpdateSequenceNum(stream, shard, seq)
UpdateSequenceNum(m, stream, shard, seq) ==
    LET m1 == InitStream(m, stream)
        sm == [x \in DOMAIN m1[stream] \cup {shard} |->
                  IF x = shard THEN seq ELSE m1[stream][x]]
    IN [m1 EXCEPT ![stream] = sm]

\* what NewStateman can read from the state file
PartialMaps == UNION {[D -> 1..MaxFileSeq] : D \in SUBSET ShardSet}
FileStates == {EmptyMap} \cup
              {[x \in {Stream_Name} |-> sm] : sm \in PartialMaps}

\* ------------------------------------------------------- Kinesis service
\* position of the iterator GetShardIterator answers for a request
IteratorPositions(in) ==
    CASE in.type = "AFTER_SEQUENCE_NUMBER" -> {in.seq + 1}
      [] in.type = "AT_SEQUENCE_NUMBER" -> {in.seq}
      [] in.type = "TRIM_HORIZON" -> {1}
      [] OTHER -> 1..(MaxSeq + 1)

\* records a GetRecords on iterator position p may carry
Batch(p, n) == [i \in 1..n |-> p + i - 1]
BatchSizes(p) == {n \in 0..MaxBatch : p + n - 1 <= MaxSeq}

NoInput == [type |-> "none", seq |-> 0]

\* ---------------------------------------------------------- shardMetrics
\* shardMetrics{}
NewShardMetrics ==
    [Disabled |-> FALSE, millisbehind |-> 0, datasize |-> 0, entrysize |-> 0,
     requests |-> 0]

\* the sample after s.Update(res, entrySize), res carrying MillisBehindLatest
\* millis and records of dsize bytes in all
ShardMetricsUpdate(s, millis, dsize, entrySize) ==
    IF s.Disabled THEN s
    ELSE [s EXCEPT !.millisbehind = millis,
                   !.requests = s.requests + 1,
                   !.datasize = s.datasize + dsize,
                   !.entrysize = s.entrysize + entrySize]

\* what s.ReadAndReset() returns
ReadValues(s) ==
    [millis |-> s.millisbehind, datasize |-> s.datasize,
     entrysize |-> s.entrysize, requests |-> s.requests]

\* the sample after s.ReadAndReset()
ResetAll(s) ==
    [s EXCEPT !.millisbehind = 0, !.datasize = 0, !.entrysize = 0, !.requests = 0]
AfterReset(s) ==
    [s EXCEPT !.datasize = 0, !.entrysize = 0, !.requests = 0]

\* the shardMetrics values within the bounds
SampleStates ==
    [Disabled : BOOLEAN, millisbehind : 0..MaxLag, datasize : 0..MaxCount,
     entrysize : 0..MaxCount, requests : 0..MaxCount]

\* len(r.Data) and ent.Size() of the entry built from a record
DataLen(r) == 1
EntrySize(r) == DataLen(r)

\* ----------------------------------------------------------- SQS service
\* a *sqs.ReceiveMessageOutput: the nil pointer, or one with Messages
NilOutput == [isnil |-> TRUE, Messages |-> <<>>]
Output(msgs) == [isnil |-> FALSE, Messages |-> msgs]

\* values of a message's Attributes["SentTimestamp"]; NoAttr: key absent.
\* SQS sends the epoch milliseconds in decimal (RegularValues); SentValues
\* adds an absent attribute and one that is no number.
NoAttr == "<absent>"
RegularValues == {"2500"}
SentValues == RegularValues \cup {NoAttr, "abc"}

\* the message batches ReceiveMessage may answer; Body is the message's place
\* in the answer, so that the messages of one answer are distinct
MessageBatches ==
    UNION {{[i \in 1..n |-> [Body |-> i, SentTimestamp |-> a[i]]] :
               a \in [1..n -> attrValues]} : n \in 0..MaxMsgs}

\* strconv.ParseInt(str, 10, 64)
ParseInt(str) ==
    CASE str = "2500" -> [err |-> FALSE, v |-> 2500]
      [] OTHER -> [err |-> TRUE, v |-> 0]

\* entry.Timestamp values: the zero value, entry.UnixTime(sec, 0), entry.Now()
ZeroTS == [from |-> "zero", sec |-> 0]
UnixTime(sec) == [from |-> "unix", sec |-> sec]
Now == [from |-> "now", sec |-> 0]

\* handlerConfig of a queue: tag, src, ignoreTimestamps
QueueTag(q) == IF q = "q0" THEN 1 ELSE 2
QueueSrc(q) == IF q = "q0" THEN "10.0.0.1" ELSE "none"
IgnoreTimestamps(q) == q = "q1"

\* the snapshots of the state file: none written by this run yet, or what
\* stateFile.Write(s.states) leaves in the file
Unwritten == [written |-> FALSE, content |-> EmptyMap]
Written(m) == [written |-> TRUE, content |-> m]

\* the process runs: main has not returned and no goroutine has panicked
Alive == mainpc \notin {"exited", "crashed"}

\* main started the metrics reporter, the only reader of metricsTrackers
\* besides the appends
HasReporter == Metrics_Interval > 0

\* the state after construction, but for the environment of the run
Base ==
    /\ mode \in {"stream", "queue"}
    /\ mainpc = "spawn"
    /\ spawnIdx = 1
    /\ wg = 0
    /\ running = TRUE
    /\ dieChan = FALSE
    /\ done = FALSE
    /\ cancpc = "none"
    /\ cancelled = FALSE
    /\ IF mode = "stream"
       THEN /\ Iterator_Type \in {"TRIM_HORIZON", "LATEST"}
            /\ ending \in [ShardSet -> BOOLEAN]
            /\ states \in FileStates
       ELSE /\ Iterator_Type = "LATEST"
            /\ ending = [s \in ShardSet |-> FALSE]
            /\ states = EmptyMap
    /\ file = Unwritten
    /\ nFlush = 0
    /\ setSince = FALSE
    /\ tasks = [s \in ShardSet |-> 0]
    /\ pc = [s \in ShardSet |-> "idle"]
    /\ gsii = [s \in ShardSet |-> NoInput]
    /\ iter = [s \in ShardSet |-> Nil]
    /\ lastSeqNum = [s \in ShardSet |-> 0]
    /\ records = [s \in ShardSet |-> <<>>]
    /\ idx = [s \in ShardSet |-> 0]
    /\ handed = [s \in ShardSet |-> <<>>]
    /\ wrote = [s \in ShardSet |-> FALSE]
    /\ expired = [s \in ShardSet |-> FALSE]
    /\ metricsTrackers = <<>>
    /\ regOld = [s \in ShardSet |-> <<>>]
    /\ tracker = [s \in ShardSet |-> NewShardMetrics]
    /\ reporter = IF mode = "stream" /\ HasReporter THEN "running" ELSE "none"
    /\ parseTime = [s \in ShardSet |-> Parse_Time]
    /\ ents = [s \in ShardSet |-> <<>>]
    /\ qpc = [q \in QueueSet |-> "idle"]
    /\ helper = [q \in QueueSet |-> "none"]
    /\ o = [q \in QueueSet |-> NilOutput]
    /\ out = [q \in QueueSet |-> NilOutput]
    /\ qidx = [q \in QueueSet |-> 0]
    /\ qhanded = [q \in QueueSet |-> <<>>]
    /\ qfail = [q \in QueueSet |-> FALSE]
    /\ closes = [t \in ShardSet \cup QueueSet |-> 0]

\* the configuration and environment of a run
Env(attrs, pt, mi, pf, tk) ==
    /\ attrValues = attrs
    /\ ticks = tk
    /\ Parse_Time = pt
    /\ Metrics_Interval = mi
    /\ procFails = pf

\* the shardMetrics called on its own starts in one of the states S
Bench(S) ==
    /\ sample \in S
    /\ rets = <<>>
    /\ before = NewShardMetrics
    /\ lastOp = "none"

Init == Env(RegularValues, FALSE, 0, FALSE, 0) /\ Bench({NewShardMetrics}) /\ Base

\* ------------------------------------------------- Kinesis: main's loop
\* shard.SequenceNumberRange.EndingSequenceNumber != nil
NeverClosed(s) == FALSE
ShardClosed(s) == ending[s]

\* the shard loop: skip closed shards, start a goroutine for the others
KSpawn ==
    /\ mode = "stream" /\ mainpc = "spawn" /\ spawnIdx <= Len(ShardIds)
    /\ LET s == ShardIds[spawnIdx] IN
          IF ShardClosed(s)
          THEN UNCHANGED <<pc, tasks>>
          ELSE /\ pc' = [pc EXCEPT ![s] = "spawned"]
               /\ tasks' = [tasks EXCEPT ![s] = tasks[s] + 1]
    /\ spawnIdx' = spawnIdx + 1
    /\ UNCHANGED <<mainpc, wg, running, dieChan, done, cancpc, cancelled,
                   cfgVars, states, gsii, iter, lastSeqNum, records, idx,
                   handed, wrote, expired, queueVars, closes, parseTime, ents,
                   metricsTrackers, regOld, tracker, benchVars, fileVars,
                   reporter>>

\* utils.WaitForQuit() returns; running = false
KQuit ==
    /\ mode = "stream" /\ mainpc = "spawn" /\ spawnIdx > Len(ShardIds)
    /\ mainpc' = "quit"
    /\ running' = FALSE
    /\ UNCHANGED <<spawnIdx, wg, dieChan, done, cancpc, cancelled, cfgVars,
                   states, shardVars, queueVars, benchVars, fileVars>>

\* close(dieChan); go func() { time.Sleep(time.Second); cancel() }()
KCloseDie ==
    /\ mode = "stream" /\ mainpc = "quit"
    /\ mainpc' = "wait"
    /\ dieChan' = TRUE
    /\ cancpc' = "sleep"
    /\ UNCHANGED <<spawnIdx, wg, running, done, cancelled, cfgVars, states,
                   shardVars, queueVars, benchVars, fileVars>>


\* stateman.Flush()
Flush ==
    /\ file' = Written(states)
    /\ nFlush' = IF nFlush < 2 THEN nFlush + 1 ELSE nFlush
    /\ setSince' = FALSE

\* wg.Wait() returns and main returns: the deferred stateMan.Close() flushes
\* and the process is gone
KWait ==
    /\ mode = "stream" /\ mainpc = "wait"
    /\ wg = 0
    /\ Flush
    /\ mainpc' = "exited"
    /\ UNCHANGED <<spawnIdx, wg, running, dieChan, done, cancpc, cancelled,
                   cfgVars, states, shardVars, queueVars, benchVars, ticks>>

\* the goroutine of stateman.Start: its 15 s timer fires, s.Flush()
PeriodicFlush ==
    /\ mode = "stream" /\ Alive
    /\ ticks > 0
    /\ ticks' = ticks - 1
    /\ Flush
    /\ UNCHANGED <<mainVars, cfgVars, wg, states, shardVars, queueVars,
                   benchVars>>

\* the grace goroutine of either main: cancel() after the sleep
Cancel ==
    /\ Alive /\ cancpc = "sleep"
    /\ cancpc' = "done"
    /\ cancelled' = TRUE
    /\ UNCHANGED <<mainpc, spawnIdx, wg, running, dieChan, done, cfgVars,
                   states, shardVars, queueVars, benchVars, fileVars>>

\* --------------------------------------------- Kinesis: shard goroutine
\* seqnum := stateMan.GetSequenceNum(stream.Stream_Name, *shard.ShardId),
\* read from the map m the call leaves behind
PendingSeqnum(m, s) == lastSeqNum[s]
SeqnumFor(m, s) == Lookup(m, Stream_Name, s)

\* the GetShardIteratorInput built from seqnum
AtSequenceInput(seqnum) ==
    IF seqnum = 0
    THEN [type |-> Iterator_Type, seq |-> 0]
    ELSE [type |-> "AT_SEQUENCE_NUMBER", seq |-> seqnum]
ShardIteratorInput(seqnum) ==
    IF seqnum = 0
    THEN [type |-> Iterator_Type, seq |-> 0]
    ELSE [type |-> "AFTER_SEQUENCE_NUMBER", seq |-> seqnum]

\* lastSeqNum after the record loop handled record r, the i-th of the batch
FirstOnlySeqNum(cur, r, i) == IF i = 1 THEN r ELSE cur
NextLastSeqNum(cur, r, i) == r

\* stateman.states after the record loop handled record r of shard s:
\* the loop does not touch the store
StatesPerRecord(m, s, r) == UpdateSequenceNum(m, Stream_Name, s, r)
StatesAfterRecord(m, s, r) == m

\* where a goroutine continues after a time.Sleep
WakeTarget(p) ==
    CASE p = "sleepAcq" -> "acquire"
      [] p = "sleepThrottle" -> "getRecords"
      [] p = "sleepOther" -> "getRecords"
      [] p = "sleepExpired" -> "acquire"
      [] p = "sleepIdle" -> "update"
      [] OTHER -> p

SleepStates == {"sleepAcq", "sleepThrottle", "sleepOther", "sleepExpired", "sleepIdle"}

\* classes of failed GetRecords answers
GetRecordsErrors == {"throttle", "expired", "other", "unknown"}

\* where the retry loop goes on a failed GetRecords
ErrorTarget(e) ==
    CASE e = "throttle" -> "sleepThrottle"
      [] e = "expired" -> "sleepExpired"
      [] e = "other" -> "sleepOther"
      [] OTHER -> "getRecords"

\* iter after an answer whose NextShardIterator is next
NextIter(cur, next) == IF next # Nil THEN next ELSE cur

\* wg.Add(1) as the goroutine's first statement
TaskStart(s) ==
    /\ mode = "stream" /\ Alive /\ pc[s] = "spawned"
    /\ wg' = wg + 1
    /\ pc' = [pc EXCEPT ![s] = "setup"]
    /\ UNCHANGED <<mainVars, cfgVars, states, gsii, iter, lastSeqNum, records,
                   idx, handed, wrote, expired, queueVars, closes, parseTime,
                   ents, tasks, metricsTrackers, regOld, tracker, benchVars,
                   fileVars, reporter>>

\* timegrinder.NewTimeGrinder can only matter when Parse_Time is set
TgErrors == IF Parse_Time THEN BOOLEAN ELSE {FALSE}

\* timegrinder, source override, processor set (Timezone_Override is taken to
\* be empty or valid)
TaskSetup(s) ==
    /\ mode = "stream" /\ Alive /\ pc[s] = "setup"
    /\ \E tgErr \in TgErrors :
          parseTime' = [parseTime EXCEPT ![s] = parseTime[s] /\ ~tgErr]
    /\ pc' = [pc EXCEPT ![s] = "register"]
    /\ UNCHANGED <<mainVars, cfgVars, wg, states, gsii, iter, lastSeqNum,
                   records, idx, handed, wrote, expired, queueVars, closes,
                   ents, tasks, metricsTrackers, regOld, tracker, benchVars,
                   fileVars, reporter>>

\* metricsTrackers = append(metricsTrackers, &tracker) runs without a lock:
\* the append reads the slice ...
RegisterRead(s) ==
    /\ mode = "stream" /\ Alive /\ pc[s] = "register"
    /\ regOld' = [regOld EXCEPT ![s] = metricsTrackers]
    /\ pc' = [pc EXCEPT ![s] = "registering"]
    /\ UNCHANGED <<mainVars, cfgVars, wg, states, gsii, iter, lastSeqNum,
                   metricsTrackers, tracker, records, idx, handed, wrote,
                   expired, queueVars, closes, parseTime, ents, tasks,
                   benchVars, fileVars, reporter>>

\* ... and stores the longer one; then tracker.Disabled is set.  Without a
\* reporter nothing ever reads the slice, and its content is not recorded.
RegisterWrite(s) ==
    /\ mode = "stream" /\ Alive /\ pc[s] = "registering"
    /\ metricsTrackers' = IF HasReporter THEN Append(regOld[s], s)
                                         ELSE metricsTrackers
    /\ regOld' = [regOld EXCEPT ![s] = <<>>]
    /\ tracker' = [tracker EXCEPT ![s].Disabled = (Metrics_Interval = 0)]
    /\ pc' = [pc EXCEPT ![s] = "acquire"]
    /\ UNCHANGED <<mainVars, cfgVars, wg, states, gsii, iter, lastSeqNum,
                   records, idx, handed, wrote, expired, queueVars, closes,
                   parseTime, ents, tasks, benchVars, fileVars, reporter>>

\* the shards whose tracker the slice holds
Tracked(sl) == {sl[i] : i \in 1..Len(sl)}

\* the reporter's timer fires: every tracker of the slice is drained and the
\* lag sum is divided by len(metricsTrackers), which panics on an empty
\* slice; the report itself is only logged
Report ==
    /\ mode = "stream" /\ Alive /\ reporter = "running"
    /\ IF metricsTrackers = <<>>
       THEN /\ mainpc' = "crashed"
            /\ UNCHANGED tracker
       ELSE /\ tracker' = [s \in ShardSet |->
                              IF s \in Tracked(metricsTrackers)
                              THEN AfterReset(tracker[s]) ELSE tracker[s]]
            /\ UNCHANGED mainpc
    /\ UNCHANGED <<spawnIdx, wg, running, dieChan, done, cancpc, cancelled,
                   cfgVars, states, pc, gsii, iter, lastSeqNum, records, idx,
                   handed, wrote, expired, parseTime, ents, tasks, closes,
                   metricsTrackers, regOld, reporter, queueVars, benchVars,
                   fileVars>>

\* case <-dieChan: the reporter returns
ReporterExit ==
    /\ mode = "stream" /\ Alive /\ reporter = "running"
    /\ dieChan
    /\ reporter' = "exited"
    /\ UNCHANGED <<mainVars, cfgVars, wg, states, pc, gsii, iter, lastSeqNum,
                   records, idx, handed, wrote, expired, parseTime, ents,
                   tasks, closes, metricsTrackers, regOld, tracker, queueVars,
                   benchVars, fileVars>>

\* head of reconnectLoop: build the GetShardIteratorInput
Acquire(s) ==
    /\ mode = "stream" /\ Alive /\ pc[s] = "acquire"
    /\ states' = GetSequenceNum(states, Stream_Name, s)
    /\ gsii' = [gsii EXCEPT ![s] = ShardIteratorInput(SeqnumFor(states', s))]
    /\ pc' = [pc EXCEPT ![s] = "getIter"]
    /\ UNCHANGED <<mainVars, cfgVars, wg, iter, lastSeqNum, records, idx,
                   handed, wrote, expired, queueVars, closes, parseTime, ents,
                   tasks, metricsTrackers, regOld, tracker, benchVars,
                   fileVars, reporter>>

\* svc.GetShardIterator answers
GetShardIterator(s) ==
    /\ mode = "stream" /\ Alive /\ pc[s] = "getIter"
    /\ \/ \E ans \in {"err", "nil"} :
             /\ pc' = [pc EXCEPT ![s] = "sleepAcq"]
             /\ UNCHANGED <<iter, lastSeqNum, records>>
       \/ \E p \in IteratorPositions(gsii[s]) :
             /\ pc' = [pc EXCEPT ![s] = "loopHead"]
             /\ iter' = [iter EXCEPT ![s] = p]
             /\ lastSeqNum' = [lastSeqNum EXCEPT ![s] = 0]
             /\ records' = [records EXCEPT ![s] = <<>>]
    /\ UNCHANGED <<mainVars, cfgVars, wg, states, gsii, idx, handed, wrote,
                   expired, queueVars, closes, parseTime, ents, tasks,
                   metricsTrackers, regOld, tracker, benchVars, fileVars,
                   reporter>>

\* a time.Sleep of the goroutine ends
Wake(s) ==
    /\ mode = "stream" /\ Alive /\ pc[s] \in SleepStates
    /\ pc' = [pc EXCEPT ![s] = WakeTarget(pc[s])]
    /\ UNCHANGED <<mainVars, cfgVars, wg, states, gsii, iter, lastSeqNum,
                   records, idx, handed, wrote, expired, queueVars, closes,
                   parseTime, ents, tasks, metricsTrackers, regOld, tracker,
                   benchVars, fileVars, reporter>>

\* `for running`: the flag is read without synchronisation, so after main
\* cleared it the read yields either value
LoopHead(s) ==
    /\ mode = "stream" /\ Alive /\ pc[s] = "loopHead"
    /\ \E seen \in {running, TRUE} :
          pc' = [pc EXCEPT ![s] = IF seen THEN "getRecords" ELSE "closeProc"]
    /\ records' = [records EXCEPT ![s] = <<>>]
    /\ handed' = [handed EXCEPT ![s] = <<>>]
    /\ ents' = [ents EXCEPT ![s] = <<>>]
    /\ idx' = [idx EXCEPT ![s] = 0]
    /\ wrote' = [wrote EXCEPT ![s] = FALSE]
    /\ UNCHANGED <<mainVars, cfgVars, wg, states, gsii, iter, lastSeqNum,
                   expired, queueVars, closes, parseTime, tasks,
                   metricsTrackers, regOld, tracker, benchVars, fileVars,
                   reporter>>

\* one pass of the inner retry loop: svc.GetRecords answers
GetRecords(s) ==
    /\ mode = "stream" /\ Alive /\ pc[s] = "getRecords"
    /\ \/ \E n \in BatchSizes(iter[s]) :
          \E next \in {iter[s] + n} \cup
                      (IF iter[s] + n = MaxSeq + 1 THEN {Nil} ELSE {}) :
             /\ iter' = [iter EXCEPT ![s] = NextIter(iter[s], next)]
             /\ records' = [records EXCEPT ![s] = Batch(iter[s], n)]
             /\ idx' = [idx EXCEPT ![s] = 1]
             /\ pc' = [pc EXCEPT ![s] = IF n = 0 THEN "sleepIdle" ELSE "records"]
             /\ expired' = expired
       \/ \E e \in GetRecordsErrors :
             /\ iter' = [iter EXCEPT ![s] = NextIter(iter[s], Nil)]
             /\ records' = [records EXCEPT ![s] = <<>>]
             /\ idx' = [idx EXCEPT ![s] = 0]
             /\ pc' = [pc EXCEPT ![s] = ErrorTarget(e)]
             /\ expired' = [expired EXCEPT ![s] = (e = "expired") \/ expired[s]]
    /\ UNCHANGED <<mainVars, cfgVars, wg, states, gsii, lastSeqNum, handed,
                   wrote, queueVars, closes, parseTime, ents, tasks,
                   metricsTrackers, regOld, tracker, benchVars, fileVars,
                   reporter>>

\* what tg.Extract answers: a timestamp ("ok"), !ok ("notfound") or an
\* error; "skipped" when Parse_Time is false and Extract is not called
ExtractResults(pt) == IF pt THEN {"ok", "notfound", "err"} ELSE {"skipped"}

\* where ent.TS comes from: tg.Extract or r.ApproximateArrivalTimestamp
EntryTS(x) == IF x = "ok" THEN "extracted" ELSE "arrival"

\* stream.Parse_Time after the timestamp selection
KeepParsing(pt, x) == pt
AfterExtract(pt, x) == IF x \in {"notfound", "err"} THEN FALSE ELSE pt

\* what procset.ProcessContext(ent, ctx) answers: an error when a processor
\* rejects the entry, and possibly one once ctx is cancelled
ProcessResults == IF procFails \/ cancelled THEN {"ok", "err"} ELSE {"ok"}

\* where the record loop goes after ProcessContext answered res: its error
\* is logged and nothing else
AbortOnError(s, res) ==
    IF res = "err" THEN "closeProc"
    ELSE IF idx[s] = Len(records[s]) THEN "update" ELSE "records"
AfterRecord(s, res) ==
    IF idx[s] = Len(records[s]) THEN "update" ELSE "records"

\* one pass of the record loop: build the entry, procset.ProcessContext
ProcessRecord(s) ==
    /\ mode = "stream" /\ Alive /\ pc[s] = "records"
    /\ LET r == records[s][idx[s]] IN
          /\ lastSeqNum' = [lastSeqNum EXCEPT ![s] = NextLastSeqNum(lastSeqNum[s], r, idx[s])]
          /\ handed' = [handed EXCEPT ![s] = Append(handed[s], r)]
          /\ states' = StatesAfterRecord(states, s, r)
    /\ \E x \in ExtractResults(parseTime[s]) : \E res \in ProcessResults :
          /\ parseTime' = [parseTime EXCEPT ![s] = AfterExtract(parseTime[s], x)]
          /\ ents' = [ents EXCEPT ![s] =
                        Append(ents[s], [extract |-> x, TS |-> EntryTS(x), res |-> res])]
          /\ pc' = [pc EXCEPT ![s] = AfterRecord(s, res)]
    /\ idx' = [idx EXCEPT ![s] = idx[s] + 1]
    /\ UNCHANGED <<mainVars, cfgVars, wg, gsii, iter, records, wrote, expired,
                   queueVars, closes, tasks, metricsTrackers, regOld, tracker,
                   benchVars, fileVars, reporter>>

\* after the record loop: tracker.Update, then the checkpoint
Update(s) ==
    /\ mode = "stream" /\ Alive /\ pc[s] = "update"
    /\ IF lastSeqNum[s] # 0
       THEN /\ states' = UpdateSequenceNum(states, Stream_Name, s, lastSeqNum[s])
            /\ wrote' = [wrote EXCEPT ![s] = TRUE]
            /\ setSince' = (nFlush >= 1)
       ELSE UNCHANGED <<states, wrote, setSince>>
    /\ \E millis \in 0..MaxLag :
          tracker' = [tracker EXCEPT ![s] =
                         ShardMetricsUpdate(tracker[s], millis,
                                            Len(records[s]) * DataLen(0),
                                            Len(handed[s]) * EntrySize(0))]
    /\ expired' = [expired EXCEPT ![s] = expired[s] /\ records[s] = <<>>]
    /\ pc' = [pc EXCEPT ![s] = "loopHead"]
    /\ UNCHANGED <<mainVars, cfgVars, wg, gsii, iter, lastSeqNum, records,
                   idx, handed, queueVars, closes, parseTime, ents, tasks,
                   metricsTrackers, regOld, benchVars, file, ticks, nFlush,
                   reporter>>

\* procset.Close() and the break out of reconnectLoop
CloseProc(s) ==
    /\ mode = "stream" /\ Alive /\ pc[s] = "closeProc"
    /\ pc' = [pc EXCEPT ![s] = "exit"]
    /\ closes' = [closes EXCEPT ![s] = closes[s] + 1]
    /\ UNCHANGED <<mainVars, cfgVars, wg, states, gsii, iter, lastSeqNum,
                   records, idx, handed, wrote, expired, queueVars, parseTime,
                   ents, tasks, metricsTrackers, regOld, tracker, benchVars,
                   fileVars, reporter>>

\* the deferred wg.Done()
TaskDone(s) ==
    /\ mode = "stream" /\ Alive /\ pc[s] = "exit"
    /\ wg' = wg - 1
    /\ pc' = [pc EXCEPT ![s] = "done"]
    /\ UNCHANGED <<mainVars, cfgVars, states, gsii, iter, lastSeqNum, records,
                   idx, handed, wrote, expired, queueVars, closes, parseTime,
                   ents, tasks, metricsTrackers, regOld, tracker, benchVars,
                   fileVars, reporter>>

\* ------------------------------------------- a shardMetrics on its own
\* sample.Update(res, entrySize)
SampleUpdate ==
    /\ \E millis \in 0..MaxLag, dsize \in 0..MaxCount, entrySize \in 0..MaxCount :
          /\ sample.Disabled \/ sample.requests < MaxCount
          /\ sample.Disabled \/ sample.datasize + dsize <= MaxCount
          /\ sample.Disabled \/ sample.entrysize + entrySize <= MaxCount
          /\ sample' = ShardMetricsUpdate(sample, millis, dsize, entrySize)
    /\ before' = sample
    /\ rets' = <<>>
    /\ lastOp' = "Update"
    /\ UNCHANGED <<mainVars, cfgVars, wg, states, shardVars, queueVars,
                   fileVars>>

\* sample.ReadAndReset()
SampleReadAndReset ==
    /\ sample' = AfterReset(sample)
    /\ before' = sample
    /\ rets' = IF Len(rets) = 2 THEN <<rets[2], ReadValues(sample)>>
                ELSE Append(rets, ReadValues(sample))
    /\ lastOp' = "ReadAndReset"
    /\ UNCHANGED <<mainVars, cfgVars, wg, states, shardVars, queueVars,
                   fileVars>>

\* ----------------------------------------------------- SQS: main
\* the listener loop: wg.Add(1); go queueRunner(hcfg)
QSpawn ==
    /\ mode = "queue" /\ mainpc = "spawn" /\ spawnIdx <= Len(Queues)
    /\ wg' = wg + 1
    /\ qpc' = [qpc EXCEPT ![Queues[spawnIdx]] = "loop"]
    /\ spawnIdx' = spawnIdx + 1
    /\ UNCHANGED <<mainpc, running, dieChan, done, cancpc, cancelled, cfgVars,
                   states, shardVars, helper, o, out, qidx, qhanded, qfail,
                   benchVars, fileVars>>

\* utils.WaitForQuit() returns; go func() { time.Sleep(time.Second); cancel() }()
QQuit ==
    /\ mode = "queue" /\ mainpc = "spawn" /\ spawnIdx > Len(Queues)
    /\ mainpc' = "quit"
    /\ cancpc' = "sleep"
    /\ UNCHANGED <<spawnIdx, wg, running, dieChan, done, cancelled, cfgVars,
                   states, shardVars, queueVars, benchVars, fileVars>>

\* close(done)
QCloseDone ==
    /\ mode = "queue" /\ mainpc = "quit"
    /\ mainpc' = "wait"
    /\ done' = TRUE
    /\ UNCHANGED <<spawnIdx, wg, running, dieChan, cancpc, cancelled, cfgVars,
                   states, shardVars, queueVars, benchVars, fileVars>>

\* wg.Wait() returns; igst.Sync, igst.Close, main returns
QWait ==
    /\ mode = "queue" /\ mainpc = "wait"
    /\ wg = 0
    /\ mainpc' = "exited"
    /\ UNCHANGED <<spawnIdx, wg, running, dieChan, done, cancpc, cancelled,
                   cfgVars, states, shardVars, queueVars, benchVars, fileVars>>

\* ---------------------------------------------------- SQS: queueRunner
\* what queueRunner does with the value it took from c
AfterReceive(v) ==
    CASE v.isnil -> "exit"
      [] v.Messages = <<>> -> "loop"
      [] OTHER -> "msgs"

\* the done case of the select is ready
WaitsForAnswer(q) == done /\ helper[q] \in {"sendNil", "sendOut"}
DoneReady(q) == done

\* ts of the entry built for message v of queue q
NowWhenUnusable(q, v) ==
    IF IgnoreTimestamps(q) \/ v.SentTimestamp = NoAttr
           \/ ParseInt(v.SentTimestamp).err
    THEN Now
    ELSE UnixTime(ParseInt(v.SentTimestamp).v \div 1000)
MessageTS(q, v) ==
    IF ~IgnoreTimestamps(q)
    THEN IF v.SentTimestamp = NoAttr THEN ZeroTS
         ELSE IF ParseInt(v.SentTimestamp).err THEN ZeroTS
         ELSE UnixTime(ParseInt(v.SentTimestamp).v \div 1000)
    ELSE Now

\* the entry built for message v of queue q
QueueEntry(q, v) ==
    [SRC |-> QueueSrc(q), TS |-> MessageTS(q, v), Tag |-> QueueTag(q),
     Data |-> v.Body]

\* where queueRunner goes after ProcessContext answered res
ContinueOnError(q, res) ==
    IF qidx[q] = Len(out[q].Messages) THEN "loop" ELSE "msgs"
AfterProcess(q, res) ==
    IF res = "err" THEN "exit"
    ELSE IF qidx[q] = Len(out[q].Messages) THEN "loop" ELSE "msgs"

\* head of the for loop: build and validate the request (QueueUrl is set,
\* so Validate passes), start the receive helper
QLoop(q) ==
    /\ mode = "queue" /\ Alive /\ qpc[q] = "loop"
    /\ helper' = [helper EXCEPT ![q] = "calling"]
    /\ qpc' = [qpc EXCEPT ![q] = "select"]
    /\ out' = [out EXCEPT ![q] = NilOutput]
    /\ qhanded' = [qhanded EXCEPT ![q] = <<>>]
    /\ UNCHANGED <<mainVars, cfgVars, wg, states, shardVars, o, qidx, qfail,
                   benchVars, fileVars>>

\* the helper: svc.ReceiveMessage(req) answers
HelperReceive(q) ==
    /\ mode = "queue" /\ Alive /\ helper[q] = "calling"
    /\ \/ \E msgs \in MessageBatches :
             /\ o' = [o EXCEPT ![q] = Output(msgs)]
             /\ helper' = [helper EXCEPT ![q] = "sendOut"]
       \/ /\ o' = [o EXCEPT ![q] = Output(<<>>)]
          /\ helper' = [helper EXCEPT ![q] = "sendNil"]
    /\ UNCHANGED <<mainVars, cfgVars, wg, states, shardVars, qpc, out, qidx,
                   qhanded, qfail, benchVars, fileVars>>

\* select case out = <-c: rendezvous with the helper's pending send on the
\* unbuffered channel (c <- nil after an error, c <- o otherwise); after its
\* c <- o the helper returns and its o is gone
QRecv(q) ==
    /\ mode = "queue" /\ Alive /\ qpc[q] = "select"
    /\ helper[q] \in {"sendNil", "sendOut"}
    /\ LET v == IF helper[q] = "sendNil" THEN NilOutput ELSE o[q] IN
          /\ out' = [out EXCEPT ![q] = v]
          /\ qpc' = [qpc EXCEPT ![q] = AfterReceive(v)]
    /\ helper' = [helper EXCEPT ![q] = IF helper[q] = "sendNil" THEN "sendOut" ELSE "exited"]
    /\ o' = [o EXCEPT ![q] = IF helper[q] = "sendNil" THEN o[q] ELSE NilOutput]
    /\ qidx' = [qidx EXCEPT ![q] = 1]
    /\ UNCHANGED <<mainVars, cfgVars, wg, states, shardVars, qhanded, qfail,
                   benchVars, fileVars>>

\* select case <-hcfg.done
QSelectDone(q) ==
    /\ mode = "queue" /\ Alive /\ qpc[q] = "select"
    /\ DoneReady(q)
    /\ qpc' = [qpc EXCEPT ![q] = "exit"]
    /\ UNCHANGED <<mainVars, cfgVars, wg, states, shardVars, helper, o, out,
                   qidx, qhanded, qfail, benchVars, fileVars>>

\* one pass of the message loop: build the entry, hcfg.proc.ProcessContext
QProcess(q) ==
    /\ mode = "queue" /\ Alive /\ qpc[q] = "msgs"
    /\ qhanded' = [qhanded EXCEPT ![q] =
                       Append(qhanded[q], QueueEntry(q, out[q].Messages[qidx[q]]))]
    /\ \E res \in {"ok", "err"} :
          /\ qpc' = [qpc EXCEPT ![q] = AfterProcess(q, res)]
          /\ qfail' = [qfail EXCEPT ![q] = qfail[q] \/ res = "err"]
    /\ qidx' = [qidx EXCEPT ![q] = qidx[q] + 1]
    /\ UNCHANGED <<mainVars, cfgVars, wg, states, shardVars, helper, o, out,
                   benchVars, fileVars>>

\* the deferred hcfg.wg.Done()
QDone(q) ==
    /\ mode = "queue" /\ Alive /\ qpc[q] = "exit"
    /\ wg' = wg - 1
    /\ qpc' = [qpc EXCEPT ![q] = "done"]
    /\ UNCHANGED <<mainVars, cfgVars, states, shardVars, helper, o, out, qidx,
                   qhanded, qfail, benchVars, fileVars>>

QueueStep(q) ==
    \/ QLoop(q) \/ HelperReceive(q) \/ QRecv(q) \/ QSelectDone(q)
    \/ QProcess(q) \/ QDone(q)

QMain == QSpawn \/ QQuit \/ QCloseDone \/ QWait

\* the goroutine up to reconnectLoop
StartStep(s) ==
    TaskStart(s) \/ TaskSetup(s) \/ RegisterRead(s) \/ RegisterWrite(s)

ShardStep(s) ==
    \/ StartStep(s)
    \/ Acquire(s) \/ GetShardIterator(s)
    \/ Wake(s) \/ LoopHead(s) \/ GetRecords(s) \/ ProcessRecord(s)
    \/ Update(s) \/ CloseProc(s) \/ TaskDone(s)

KMain == KSpawn \/ KQuit \/ KCloseDie \/ KWait

Next ==
    \/ KMain
    \/ QMain
    \/ Cancel
    \/ \E s \in ShardSet : ShardStep(s)
    \/ \E q \in QueueSet : QueueStep(q)

Spec == Init /\ [][Next]_vars

\* The Kinesis ingester alone, with the scheduling the Go runtime gives: every
\* goroutine that can step eventually steps, and a goroutine that keeps reading
\* the flag eventually sees main's write.  What the service answers is not
\* constrained.
InitK == Init /\ mode = "stream"
NextK == KMain \/ Cancel \/ \E s \in ShardSet : ShardStep(s)
SeesStop(s) == LoopHead(s) /\ pc'[s] = "closeProc"
\* The Kinesis ingester started without a state file on a stream read from
\* its beginning
FreshStream ==
    Base /\ mode = "stream" /\ Iterator_Type = "TRIM_HORIZON" /\ states = EmptyMap

\* ... with Parse_Time set
InitT ==
    Env(RegularValues, TRUE, 0, FALSE, 0) /\ Bench({NewShardMetrics}) /\ FreshStream
SpecT == InitT /\ [][NextK]_vars

\* ... with processors that may reject entries
InitP ==
    Env(RegularValues, FALSE, 0, TRUE, 0) /\ Bench({NewShardMetrics}) /\ FreshStream
SpecP == InitP /\ [][NextK]_vars

\* ... with one open shard and two ticks of the state file's 15 s timer
InitF ==
    /\ Env(RegularValues, FALSE, 0, FALSE, 2) /\ Bench({NewShardMetrics})
    /\ FreshStream /\ ending = [s \in ShardSet |-> s # ShardIds[1]]
NextF == NextK \/ PeriodicFlush

\* The start of the Kinesis ingester with Metrics_Interval set, on a fresh
\* stream: main, the metrics reporter, and each shard goroutine up to the
\* point where it enters reconnectLoop
InitM ==
    Env(RegularValues, FALSE, 5, FALSE, 0) /\ Bench({NewShardMetrics}) /\ FreshStream
NextM == KMain \/ Report \/ ReporterExit \/ \E s \in ShardSet : StartStep(s)
SpecM == InitM /\ [][NextM]_vars
SpecF == InitF /\ [][NextF]_vars

\* A shardMetrics on its own, in any state, under any sequence of Update and
\* ReadAndReset calls; the ingester does not run.
InitSample ==
    /\ Env(RegularValues, FALSE, 0, FALSE, 0) /\ Bench(SampleStates)
    /\ FreshStream /\ ending = [s \in ShardSet |-> FALSE]
NextSample == SampleUpdate \/ SampleReadAndReset
SpecSample == InitSample /\ [][NextSample]_vars

FairSpecK ==
    /\ InitK /\ [][NextK]_vars
    /\ WF_vars(KMain) /\ WF_vars(Cancel)
    /\ \A s \in ShardSet : WF_vars(ShardStep(s)) /\ SF_vars(SeesStop(s))

\* The SQS ingester alone.  queueRunner and main always get to step, and a
\* select whose done case is ready again and again eventually takes it (Go
\* picks among ready cases at random).  The helper's ReceiveMessage call is
\* not constrained: the service may never answer.
InitQ == Init /\ mode = "queue"
NextQ == QMain \/ Cancel \/ \E q \in QueueSet : QueueStep(q)
RunnerStep(q) == QLoop(q) \/ QRecv(q) \/ QSelectDone(q) \/ QProcess(q) \/ QDone(q)
\* The SQS ingester against a service that may also send messages whose
\* SentTimestamp is absent or no number.
InitQM ==
    /\ Env(SentValues, FALSE, 0, FALSE, 0) /\ Bench({NewShardMetrics})
    /\ Base /\ mode = "queue"
SpecQM == InitQM /\ [][NextQ]_vars

FairSpecQ ==
    /\ InitQ /\ [][NextQ]_vars
    /\ WF_vars(QMain) /\ WF_vars(Cancel)
    /\ \A q \in QueueSet : WF_vars(RunnerStep(q)) /\ SF_vars(QSelectDone(q))

\* ================================================================ claims
Token(s) == Lookup(states, Stream_Name, s)
Last(sq) == sq[Len(sq)]

\* C1: once a pass of the batch loop that fetched at least one record is
\* over, the store holds for (stream, shard) the sequence number of the last
\* record of that batch, whatever other shards wrote meanwhile.
C1_TokenIsLastOfBatch ==
    \A s \in ShardSet :
        (pc[s] = "loopHead" /\ records[s] # <<>>) => Token(s) = Last(records[s])

\* two batches of one record each: the second one has been checkpointed
C1_Witness ==
    \E s \in ShardSet :
        /\ pc[s] = "loopHead" /\ records[s] = <<MaxSeq>> /\ Token(s) = MaxSeq
        /\ gsii[s].type = "TRIM_HORIZON"

\* C2: while a GetShardIterator request is in flight it asks for
\* AFTER_SEQUENCE_NUMBER T when the store holds a token T for the shard and
\* for the configured Iterator_Type when it holds none; and no record handed
\* to the processor has a sequence number at or before the T the iterator
\* was asked for.
C2_IteratorAfterToken ==
    \A s \in ShardSet :
        /\ pc[s] = "getIter" =>
              IF Token(s) # 0
              THEN gsii[s] = [type |-> "AFTER_SEQUENCE_NUMBER", seq |-> Token(s)]
              ELSE gsii[s] = [type |-> Iterator_Type, seq |-> 0]
        /\ gsii[s].type \notin {"none", "TRIM_HORIZON", "LATEST"} =>
              \A i \in 1..Len(handed[s]) : handed[s][i] > gsii[s].seq

\* a record is handed over through an iterator acquired after a stored token
C2_Witness ==
    \E s \in ShardSet :
        /\ gsii[s].type = "AFTER_SEQUENCE_NUMBER" /\ gsii[s].seq = 1
        /\ pc[s] = "update" /\ handed[s] = <<2>>

\* C3: after an iterator-expired answer the goroutine goes back to the head
\* of reconnectLoop, the request it then sends is built from the token the
\* store holds at that moment, and with a token T in the store the first
\* record handed over afterwards is T + 1.
C3_ExpiryResumesFromStore ==
    /\ [](\A s \in ShardSet :
            /\ (expired[s] /\ pc[s] = "getIter" /\ Token(s) # 0) =>
                   gsii[s] = [type |-> "AFTER_SEQUENCE_NUMBER", seq |-> Token(s)]
            /\ (expired[s] /\ pc[s] = "getIter" /\ Token(s) = 0) =>
                   gsii[s].type = Iterator_Type
            /\ (expired[s] /\ pc[s] \in {"records", "update"} /\ handed[s] # <<>>
                    /\ Token(s) # 0) =>
                   handed[s][1] = Token(s) + 1)
    /\ [][\A s \in ShardSet :
            (pc[s] = "sleepExpired" /\ pc'[s] # pc[s]) => pc'[s] = "acquire"]_vars

\* the first record after a recovery is handed over, the store holding 1
C3_Witness ==
    \E s \in ShardSet :
        expired[s] /\ pc[s] = "update" /\ handed[s] = <<2>> /\ Token(s) = 1

\* C4: the records of a batch go to the processor one by one in the order of
\* the answer, and the store is written for the shard only after the last of
\* them went: never before or between two of them.
C4_CheckpointAfterBatch ==
    /\ [](\A s \in ShardSet :
            /\ Len(handed[s]) <= Len(records[s])
            /\ \A i \in 1..Len(handed[s]) : handed[s][i] = records[s][i]
            /\ pc[s] = "records" => Len(handed[s]) = idx[s] - 1
            /\ pc[s] \in {"update", "loopHead"} => handed[s] = records[s])
    /\ [][\A s \in ShardSet :
            (Token(s)' # Token(s) \/ (wrote'[s] /\ ~wrote[s])) =>
                (pc[s] = "update" /\ handed[s] = records[s])]_vars

\* a batch of two records has been handed over and then checkpointed
C4_Witness ==
    \E s \in ShardSet :
        pc[s] = "loopHead" /\ wrote[s] /\ handed[s] = <<1, 2>> /\ Token(s) = 2

\* C5: a pass of the batch loop whose GetRecords answer carried no record
\* does not call UpdateSequenceNum.
C5_NoWriteOnEmptyBatch ==
    \A s \in ShardSet :
        (pc[s] = "loopHead" /\ wrote[s]) => records[s] # <<>>

\* C6: when main's wg.Wait() has returned, every goroutine main started
\* (shard goroutine or queueRunner) has finished.
C6_WaitCoversAllTasks ==
    mainpc = "exited" =>
        /\ \A s \in ShardSet : pc[s] \in {"idle", "done"}
        /\ \A q \in QueueSet : qpc[q] \in {"idle", "done"}

\* C7: a shard goroutine whose throttling sleep ends after main cleared the
\* running flag checks the flag next and leaves the batch loop to close its
\* processor.
C7_ThrottleSleepThenStop ==
    [][\A s \in ShardSet :
         (~running /\ pc[s] = "sleepThrottle" /\ pc'[s] # pc[s]) =>
             pc'[s] = "closeProc"]_vars

\* C8: once main cleared the running flag, every shard goroutine finishes,
\* whatever the service answers.  Stated for the goroutines that are past
\* their wg.Add(1) when the flag is cleared: wg.Wait() cannot return before
\* these are done, so main stays until they finish.
C8_ShutdownTerminates ==
    \A s \in ShardSet :
        (~running /\ pc[s] \notin {"idle", "spawned", "done"}) ~> (pc[s] = "done")

\* C9: once done is closed every queueRunner finishes, also when its
\* ReceiveMessage call never answers.
C9_DoneEndsQueueRunner ==
    done ~> (\A q \in QueueSet : qpc[q] = "done")

\* a queueRunner has finished while its ReceiveMessage call is still out
C9_Witness ==
    \E q \in QueueSet : done /\ qpc[q] = "done" /\ helper[q] = "calling"

\* C10: a failed request (throttling or any other failure of GetRecords, a
\* failure of ReceiveMessage) does not end the goroutine and changes neither
\* its iterator nor the store: the goroutine asks again.
C10_TransientFailureRetried ==
    [][/\ \A s \in ShardSet :
            /\ (pc[s] = "getRecords" /\ pc'[s] \in {"sleepThrottle", "sleepOther"}) =>
                   (iter'[s] = iter[s] /\ lastSeqNum'[s] = lastSeqNum[s]
                       /\ states' = states)
            /\ (pc[s] \in {"sleepThrottle", "sleepOther"} /\ pc'[s] # pc[s]) =>
                   pc'[s] = "getRecords"
       /\ \A q \in QueueSet :
            (helper[q] = "sendNil" /\ helper'[q] # "sendNil") =>
                   qpc'[q] \notin {"exit", "done"}]_vars

\* C11: a shard goroutine or queueRunner that has reported completion to the
\* WaitGroup has closed its own processor exactly once, and nothing is handed
\* to a processor after its Close.
C11_ProcessorClosedOnce ==
    /\ [](/\ \A s \in ShardSet : pc[s] = "done" => closes[s] = 1
          /\ \A q \in QueueSet : qpc[q] = "done" => closes[q] = 1)
    /\ [][\A s \in ShardSet : closes[s] > 0 => handed'[s] = handed[s]]_vars

\* C12: the first failed ProcessContext call of a queueRunner ends it: the
\* runner is on its way out, nothing more is handed to the processor, no new
\* ReceiveMessage call is started, and the runner reaches its wg.Done().
C12_FirstFailureEndsQueueTask ==
    /\ [](\A q \in QueueSet : qfail[q] => qpc[q] \in {"exit", "done"})
    /\ [][\A q \in QueueSet :
            qfail[q] => /\ qhanded'[q] = qhanded[q]
                        /\ helper'[q] = "calling" => helper[q] = "calling"]_vars
    /\ \A q \in QueueSet : qfail[q] ~> (qpc[q] = "done")

\* the first of two received messages failed and the runner is done
C12_Witness ==
    \E q \in QueueSet :
        /\ qfail[q] /\ qpc[q] = "done"
        /\ Len(out[q].Messages) = 2 /\ Len(qhanded[q]) = 1

\* C18: with ignoreTimestamps false, the entries handed over in a receive
\* are, in order, one per message of the answer, each with the queue's tag
\* and source and the message body; the entry of a message whose
\* SentTimestamp is absent or does not parse carries the zero timestamp, the
\* others the attribute's milliseconds as whole seconds; and as long as no
\* hand-off failed the message loop goes through the whole answer.
C18_EveryMessageYieldsEntry ==
    \A q \in QueueSet : ~IgnoreTimestamps(q) =>
        /\ Len(qhanded[q]) <= Len(out[q].Messages)
        /\ \A i \in 1..Len(qhanded[q]) :
              LET v == out[q].Messages[i]
                  e == qhanded[q][i]
              IN /\ e.Tag = QueueTag(q) /\ e.SRC = QueueSrc(q) /\ e.Data = v.Body
                 /\ e.TS = IF v.SentTimestamp = "2500"
                           THEN [from |-> "unix", sec |-> 2]
                           ELSE [from |-> "zero", sec |-> 0]
        /\ qpc[q] = "msgs" => Len(qhanded[q]) = qidx[q] - 1
        /\ (qpc[q] = "loop" /\ ~qfail[q]) => Len(qhanded[q]) = Len(out[q].Messages)

\* a message without the attribute, then one whose attribute does not parse:
\* both were handed over with the zero timestamp
C18_Witness ==
    \E q \in QueueSet :
        /\ ~IgnoreTimestamps(q) /\ Len(qhanded[q]) = 2
        /\ out[q].Messages[1].SentTimestamp = NoAttr
        /\ out[q].Messages[2].SentTimestamp = "abc"
        /\ qhanded[q][1].TS = ZeroTS /\ qhanded[q][2].TS = ZeroTS

\* C13: a ProcessContext error on a record of a batch leaves the goroutine
\* in the batch loop: the records of the batch keep going to the processor
\* in order until all were handed over, and unless main cleared the running
\* flag the goroutine then asks for the next batch.
HasErr(s) == \E i \in 1..Len(ents[s]) : ents[s][i].res = "err"
C13_ProcessorErrorKeepsStreaming ==
    /\ [](\A s \in ShardSet : HasErr(s) =>
            /\ pc[s] \in {"records", "update", "loopHead"}
            /\ Len(ents[s]) = Len(handed[s])
            /\ \A i \in 1..Len(handed[s]) : handed[s][i] = records[s][i]
            /\ pc[s] \in {"update", "loopHead"} => handed[s] = records[s])
    /\ [][\A s \in ShardSet :
            (HasErr(s) /\ pc[s] = "loopHead" /\ running /\ pc'[s] # pc[s]) =>
                pc'[s] = "getRecords"]_vars

\* the first record of a batch of two was rejected, the second one was
\* handed over all the same and the batch was checkpointed
C13_Witness ==
    \E s \in ShardSet :
        /\ pc[s] = "loopHead" /\ handed[s] = <<1, 2>> /\ wrote[s]
        /\ ents[s][1].res = "err"

\* C21: every record of the pass that wrote the shard's token, at or before
\* that token, was accepted by ProcessContext without error.
C21_CheckpointOnlyDelivered ==
    \A s \in ShardSet :
        wrote[s] =>
            \A i \in 1..Len(ents[s]) :
                handed[s][i] <= Token(s) => ents[s][i].res = "ok"

\* the sequence number of the record last handed over for shard s in this
\* run, 0 when there was none (the store starts empty and is written after
\* every batch)
PrevHanded(s) == IF handed[s] # <<>> THEN Last(handed[s]) ELSE Token(s)

\* C22: on a stream started without a state file, every record handed to
\* the processor has the sequence number that follows the one handed over
\* before it for the shard, and the shard's token never decreases.
C22_HandedInOrder ==
    /\ [][\A s \in ShardSet :
            (Len(handed'[s]) > Len(handed[s]) /\ PrevHanded(s) # 0) =>
                Last(handed'[s]) = PrevHanded(s) + 1]_vars
    /\ [][\A s \in ShardSet : Token(s)' >= Token(s)]_vars

\* C23: no report tick fires while metricsTrackers is empty, so the reporter
\* never divides the lag sum by zero (which would end the process).
C23_NoEmptyReport == mainpc # "crashed"

\* the helper of queue q is at a send on the result channel c
Sending(q) == helper[q] \in {"sendNil", "sendOut"}

\* C24: a receive helper ends after its one send, and none is at a send on c
\* once its queueRunner, the only receiver of c, has returned.
C24_HelperSendsOnceAndEnds ==
    /\ [](\A q \in QueueSet : qpc[q] \in {"exit", "done"} => ~Sending(q))
    /\ [][\A q \in QueueSet :
            (Sending(q) /\ helper'[q] # helper[q]) => helper'[q] = "exited"]_vars

\* C17: a shard found closed at discovery gets no goroutine: nothing is ever
\* requested for it and its token in the store never changes; every open
\* shard has exactly one goroutine once the shard loop is through.
C17_ClosedShardSkipped ==
    /\ [](\A s \in ShardSet :
            /\ ending[s] => /\ tasks[s] = 0 /\ pc[s] = "idle"
                             /\ gsii[s] = NoInput /\ iter[s] = Nil
                             /\ records[s] = <<>> /\ ~wrote[s]
            /\ tasks[s] <= 1
            /\ (mode = "stream" /\ ~ending[s] /\ spawnIdx > Len(ShardIds)) =>
                   tasks[s] = 1)
    /\ [][\A s \in ShardSet : ending[s] => Token(s)' = Token(s)]_vars

\* one shard is closed and was skipped, the other one is being read
C17_Witness ==
    \E s, u \in ShardSet :
        /\ ending[s] /\ pc[s] = "idle"
        /\ ~ending[u] /\ tasks[u] = 1 /\ Token(u) = MaxSeq

\* C20: once tg.Extract failed for a record of a shard, Parse_Time is off
\* for that shard's goroutine and stays off: the failed record and every
\* later one get the arrival timestamp without Extract being called, also
\* after the iterator was acquired again; the step of one shard's goroutine
\* does not change another shard's Parse_Time.
C20_TimeParsingOffForGood ==
    /\ [](\A s \in ShardSet : \A i \in 1..Len(ents[s]) :
            ents[s][i].extract \in {"notfound", "err"} =>
                /\ ~parseTime[s]
                /\ ents[s][i].TS = "arrival"
                /\ \A j \in (i + 1)..Len(ents[s]) :
                      ents[s][j].extract = "skipped" /\ ents[s][j].TS = "arrival")
    /\ [][\A s \in ShardSet : ~parseTime[s] =>
            /\ ~parseTime'[s]
            /\ Len(ents'[s]) > Len(ents[s]) =>
                  /\ Last(ents'[s]).extract = "skipped"
                  /\ Last(ents'[s]).TS = "arrival"]_vars
    /\ [][\A s, u \in ShardSet :
            (s # u /\ Len(ents'[s]) > Len(ents[s])) =>
                parseTime'[u] = parseTime[u]]_vars

\* Extract found nothing in the first record of a shard's batch and was not
\* called for the second one, while the other shard still extracts
C20_Witness ==
    \E s, u \in ShardSet :
        /\ Len(ents[s]) = 2
        /\ ents[s][1].extract = "notfound" /\ ents[s][2].extract = "skipped"
        /\ ents[s][2].TS = "arrival"
        /\ parseTime[u] /\ ents[u] # <<>> /\ ents[u][1].TS = "extracted"

\* C14: once the deferred stateMan.Close() has flushed, every shard
\* goroutine main started is over and the state file holds what
\* stateman.states holds.
C14_FinalFlushLast ==
    mainpc = "exited" =>
        /\ \A s \in ShardSet : pc[s] \in {"idle", "done"}
        /\ file = Written(states)

\* C15: a Flush that follows another Flush with no UpdateSequenceNum in
\* between writes what the file already holds.  Stated for the timer's
\* flushes while main is still before its shutdown sequence.
C15_FlushIdempotent ==
    [][(nFlush' # nFlush /\ nFlush >= 1 /\ ~setSince /\ mainpc = "spawn") =>
           file' = file]_vars

\* the goroutine of shard s is past its append to metricsTrackers
Registered(s) == pc[s] \notin {"idle", "spawned", "setup", "register", "registering"}

\* C16: once every goroutine main started has appended its tracker,
\* metricsTrackers holds the tracker of every open shard exactly once.
C16_NoLostRegistration ==
    (mode = "stream" /\ \A s \in ShardSet : ~ending[s] => Registered(s)) =>
        \A s \in ShardSet : ~ending[s] =>
            Cardinality({i \in 1..Len(metricsTrackers) : metricsTrackers[i] = s}) = 1

\* C19: of two ReadAndReset calls with no Update in between, the second
\* returns zero bytes read, bytes emitted and requests and the lag the first
\* returned; an Update on a disabled sample changes none of its fields.
C19_DrainKeepsLagOnly ==
    /\ Len(rets) = 2 =>
          rets[2] = [millis |-> rets[1].millis, datasize |-> 0, entrysize |-> 0,
                     requests |-> 0]
    /\ (lastOp = "Update" /\ before.Disabled) => sample = before

\* a sample with a lag and counters was drained twice
C19_Witness ==
    /\ Len(rets) = 2 /\ rets[1].millis = MaxLag /\ rets[2].millis = MaxLag
    /\ rets[1].requests = 1 /\ rets[1].datasize = 1 /\ rets[2].requests = 0

====
